---- MODULE Spec2Model ----
(***************************************************************************)
(* A model of VariadicTable<Ts...> (include/VariadicTable.h): a table of   *)
(* typed columns that is filled with addRow and rendered with print.       *)
(*                                                                         *)
(* Text is a sequence of one-character strings, so that the rendered       *)
(* output can be taken apart again (lines, cells, fill).  A column type is *)
(* one of four kinds:                                                      *)
(*   "string"  std::string   has size(), not arithmetic                    *)
(*   "cstr"    const char *  no size(),  not arithmetic                    *)
(*   "int"     int           no size(),  arithmetic                        *)
(*   "double"  double        no size(),  arithmetic                        *)
(* A double is held as a whole number of tenths (193.4 is 1934).           *)
(***************************************************************************)
EXTENDS Integers, Sequences, FiniteSets

VARIABLES
  Ts,                   \* the template parameter pack: the kind of each column
  status,               \* "start" | "ok" | "aborted" | "terminated"
  _headers,             \* std::vector<std::string>
  _num_columns,         \* unsigned int
  _static_column_size,  \* unsigned int
  _data,                \* std::vector<DataTuple>
  _column_sizes,        \* std::vector<unsigned int>
  stream,               \* the stream handed to print: [buf, adjustfield, width]
  lastOp,               \* the most recent call: "none" | "construct" | "addRow" | "print"
  reprint               \* the most recent call was a print that followed a print

vars == <<Ts, status, _headers, _num_columns, _static_column_size, _data,
          _column_sizes, stream, lastOp, reprint>>

----------------------------------------------------------------------------
(* Bounds of the model *)

MaxRows == 2

MaxCells == 8

MaxStatic == 2

(* Arithmetic on unsigned int wraps.  TLC's integers are 32 bits and signed, *)
(* so the modulus of the model is 2^30, the widest that leaves every sum   *)
(* of the model representable; every length of the model is far below it.  *)
UIntRange == 1073741824

UInt(n) == n % UIntRange

----------------------------------------------------------------------------
(* The inputs *)

Kinds == {"string", "cstr", "int", "double"}

ExampleTs == <<"string", "double", "int", "string">>

ExampleHeaders ==
  << <<"N","a","m","e">>, <<"W","e","i","g","h","t">>, <<"A","g","e">>,
     <<"B","r","o","t","h","e","r">> >>

ExampleRow == << <<"F","r","e","d">>, 1934, 35, <<"S","a","m">> >>

TypeLists ==
  { <<k>> : k \in Kinds }
    \cup { <<"string", "int">>, <<"int", "string">>, <<"double", "cstr">>,
           <<"cstr", "double">>, <<"string", "string">>, <<"int", "double">> }
    \cup { ExampleTs }

HeaderLists ==
  { <<>>,
    << <<>> >>, << <<"A">> >>, << <<"I","d">> >>, << <<"A","g","e">> >>,
    << <<"A">>, <<"I","d">> >>, << <<"I","d">>, <<"A","g","e">> >>,
    << <<"A","g","e">>, <<"A">> >>,
    ExampleHeaders }

Values(kind) ==
  CASE kind = "string" -> { <<"S","a","m">>, <<"F","r","e","d">> }
    [] kind = "cstr"   -> { <<"x">>, <<"h","e","l","l","o">> }
    [] kind = "int"    -> { 35, -1200 }
    [] kind = "double" -> { 1934, 20 }

(* the tuples a table of types ts accepts: one value of each column's type *)
RECURSIVE Rows(_)
Rows(ts) ==
  IF ts = <<>> THEN { <<>> }
  ELSE { <<v>> \o r : v \in Values(Head(ts)), r \in Rows(Tail(ts)) }

AdjustFields == {"none", "left", "right", "internal"}

----------------------------------------------------------------------------
(* Text helpers *)

Fill(n, c) == [i \in 1..n |-> c]

Max(a, b) == IF a >= b THEN a ELSE b

RECURSIVE Sum(_)
Sum(s) == IF s = <<>> THEN 0 ELSE Head(s) + Sum(Tail(s))

----------------------------------------------------------------------------
(* Type traits of the column kinds *)

(* std::is_arithmetic<T>, the condition of the first justify overload *)
IsArithmetic(kind) == kind \in {"int", "double"}

(* whether T has a size() member, the condition of the first sizeOfData *)
HasSize(kind) == kind = "string"

----------------------------------------------------------------------------
(* operator<< of the stream: the printed text of a value *)

DigitChar(d) == <<"0", "1", "2", "3", "4", "5", "6", "7", "8", "9">>[d + 1]

RECURSIVE ToDigits(_)
ToDigits(n) ==
  IF n < 10 THEN <<DigitChar(n)>>
  ELSE ToDigits(n \div 10) \o <<DigitChar(n % 10)>>

FormatInt(n) == IF n < 0 THEN <<"-">> \o ToDigits(-n) ELSE ToDigits(n)

(* a double of t tenths under the default format (%g, precision 6): the     *)
(* whole part, then the fraction digit unless it is zero                    *)
FormatDouble(t) ==
  LET a == IF t < 0 THEN -t ELSE t
      whole == ToDigits(a \div 10)
      frac == IF a % 10 = 0 THEN <<>> ELSE <<".", DigitChar(a % 10)>>
  IN  (IF t < 0 THEN <<"-">> ELSE <<>>) \o whole \o frac

ToText(kind, v) ==
  CASE kind = "int"    -> FormatInt(v)
    [] kind = "double" -> FormatDouble(v)
    [] OTHER           -> v

(* stream << manipulator (std::left, std::right) *)
SetAdjust(s, a) == [s EXCEPT !.adjustfield = a]

(* stream << std::setw(w) *)
setw(s, w) == [s EXCEPT !.width = w]

(* stream << text: the text is padded with the fill character up to the     *)
(* stream's width, never cut, and the width goes back to 0.                 *)
Insert(s, text, numeric) ==
  LET pad == Fill(Max(0, s.width - Len(text)), " ")
      padded ==
        IF s.adjustfield = "left" THEN text \o pad
        ELSE IF s.adjustfield = "internal" /\ numeric /\ text # <<>>
                /\ Head(text) = "-"
             THEN <<"-">> \o pad \o Tail(text)
        ELSE pad \o text
  IN  [s EXCEPT !.buf = @ \o padded, !.width = 0]

----------------------------------------------------------------------------
(* justify<T> *)

justify_left(kind) == "left"

justify(kind) == IF IsArithmetic(kind) THEN "right" ELSE "left"

(* print_each: one cell and its separator, then the next item *)
RECURSIVE print_each(_, _, _, _)
print_each(t, s, I, sizes) ==
  IF I = Len(t) + 1 THEN s
  ELSE LET s1 == SetAdjust(setw(s, sizes[I]), justify(Ts[I]))
           s2 == Insert(s1, ToText(Ts[I], t[I]), IsArithmetic(Ts[I]))
           s3 == Insert(s2, <<"|">>, FALSE)
       IN  print_each(t, s3, I + 1, sizes)

----------------------------------------------------------------------------
(* sizeOfData, size_each, size_columns *)

sizeOfData(kind, v) == IF HasSize(kind) THEN Len(v) ELSE _static_column_size

size_each(t) == [I \in 1..Len(t) |-> UInt(sizeOfData(Ts[I], t[I]))]

header_sizes_unset == [i \in 1.._num_columns |-> 0]

(* "Start with the size of the headers" *)
header_sizes == [i \in 1.._num_columns |-> UInt(Len(_headers[i]))]

wider_last(a, b) == b

(* _column_sizes[i] = std::max(_column_sizes[i], column_sizes[i]) *)
wider(a, b) == Max(a, b)

(* "Grab the size of each entry of each row and see if it's bigger" *)
RECURSIVE size_rows(_, _)
size_rows(sizes, rows) ==
  IF rows = <<>> THEN sizes
  ELSE LET column_sizes == size_each(Head(rows))
       IN  size_rows([i \in 1.._num_columns |-> wider(sizes[i], column_sizes[i])],
                     Tail(rows))

size_columns == size_rows(header_sizes, _data)

----------------------------------------------------------------------------
(* print *)

total_width_columns_only(sizes) == UInt(Sum(sizes))

(* "we will have _num_columns + 1 "|" characters", then each column's size *)
total_width(sizes) == UInt(_num_columns + 1 + Sum(sizes))

half_of_padding(i, sizes) == UInt((sizes[i] - Len(_headers[i])) \div 2)

(* auto half = _column_sizes[i] / 2; half -= _headers[i].size() / 2; *)
half(i, sizes) == UInt(sizes[i] \div 2 - Len(_headers[i]) \div 2)

(* The subtraction went below zero and wrapped.  std::string(half, ' ')    *)
(* then asks for about 4 GiB; the model takes the outcome in which the     *)
(* allocation fails and the uncaught exception ends the process.           *)
Wrapped(h) == h >= UIntRange \div 2

print_header_cell_unadjusted(s, i, sizes) ==
  Insert(Insert(setw(s, sizes[i]),
                Fill(half(i, sizes), " ") \o _headers[i], FALSE),
         <<"|">>, FALSE)

(* stream << std::setw(..) << std::left << std::string(half, ' ') + header << "|" *)
print_header_cell(s, i, sizes) ==
  Insert(Insert(SetAdjust(setw(s, sizes[i]), "left"),
                Fill(half(i, sizes), " ") \o _headers[i], FALSE),
         <<"|">>, FALSE)

RECURSIVE print_headers(_, _, _)
print_headers(s, i, sizes) ==
  IF i > _num_columns THEN [s |-> s, ok |-> TRUE]
  ELSE IF Wrapped(half(i, sizes)) THEN [s |-> s, ok |-> FALSE]
  ELSE print_headers(print_header_cell(s, i, sizes), i + 1, sizes)

print_rule_unterminated(s, tw) == Insert(s, Fill(tw, "-"), FALSE)

(* stream << std::string(total_width, '-') << "\n" *)
print_rule(s, tw) == Insert(Insert(s, Fill(tw, "-"), FALSE), <<"\n">>, FALSE)

RECURSIVE print_rows(_, _, _)
print_rows(s, rows, sizes) ==
  IF rows = <<>> THEN s
  ELSE LET s1 == Insert(s, <<"|">>, FALSE)
           s2 == print_each(Head(rows), s1, 1, sizes)
           s3 == Insert(s2, <<"\n">>, FALSE)
       IN  print_rows(s3, Tail(rows), sizes)

----------------------------------------------------------------------------
(* The operations *)

header_mismatch_less(n_headers, n_columns) == n_headers < n_columns

header_mismatch(n_headers, n_columns) == n_headers # n_columns

push_front(v, x) == <<x>> \o v

push_back(v, x) == Append(v, x)

Init ==
  /\ Ts \in TypeLists
  /\ status = "start"
  /\ _headers = <<>>
  /\ _num_columns = 0
  /\ _static_column_size = 0
  /\ _data = <<>>
  /\ _column_sizes = <<>>
  /\ stream \in [buf : {<<>>}, adjustfield : AdjustFields, width : {0}]
  /\ lastOp = "none"
  /\ reprint = FALSE

VariadicTable(headers, static_column_size) ==
  /\ status = "start"
  /\ _headers' = headers
  /\ _num_columns' = Len(Ts)
  /\ _static_column_size' = static_column_size
  /\ status' = IF header_mismatch(Len(headers), Len(Ts)) THEN "aborted" ELSE "ok"
  /\ lastOp' = "construct"
  /\ reprint' = FALSE
  /\ UNCHANGED <<Ts, _data, _column_sizes, stream>>

addRow(data) ==
  /\ status = "ok"
  /\ Len(_data) < MaxRows
  /\ (Len(_data) + 1) * _num_columns <= MaxCells
  /\ _data' = push_back(_data, data)
  /\ lastOp' = "addRow"
  /\ reprint' = FALSE
  /\ UNCHANGED <<Ts, status, _headers, _num_columns, _static_column_size,
                 _column_sizes, stream>>

(* The stream's buffer holds what the most recent print wrote; its flags    *)
(* and width are kept from call to call.  A stream starts with any          *)
(* adjustment flag and with no field width pending, as every completed      *)
(* insertion leaves it.                                                     *)
print ==
  /\ status = "ok"
  /\ LET sizes == size_columns
         tw == total_width(sizes)
         s0 == [stream EXCEPT !.buf = <<>>]
         s1 == print_rule(s0, tw)
         s2 == Insert(s1, <<"|">>, FALSE)
         h  == print_headers(s2, 1, sizes)
         s3 == Insert(h.s, <<"\n">>, FALSE)
         s4 == print_rule(s3, tw)
         s5 == print_rows(s4, _data, sizes)
         s6 == print_rule(s5, tw)
     IN  /\ _column_sizes' = sizes
         /\ stream' = IF h.ok THEN s6 ELSE h.s
         /\ status' = IF h.ok THEN "ok" ELSE "terminated"
  /\ lastOp' = "print"
  /\ reprint' = (lastOp = "print")
  /\ UNCHANGED <<Ts, _headers, _num_columns, _static_column_size, _data>>

Next ==
  \/ \E headers \in HeaderLists, s \in 0..MaxStatic : VariadicTable(headers, s)
  \/ \E data \in Rows(Ts) : addRow(data)
  \/ print

Spec == Init /\ [][Next]_vars

----------------------------------------------------------------------------
(* Reading the written output back *)

(* the pieces of s between occurrences of the character c *)
RECURSIVE SplitOn(_, _)
SplitOn(s, c) ==
  IF \A k \in 1..Len(s) : s[k] # c THEN <<s>>
  ELSE LET k == CHOOSE j \in 1..Len(s) :
                  s[j] = c /\ \A m \in 1..(j - 1) : s[m] # c
       IN  <<SubSeq(s, 1, k - 1)>> \o SplitOn(SubSeq(s, k + 1, Len(s)), c)

Pieces == SplitOn(stream.buf, "\n")

(* every byte written belongs to a line that ends in a newline *)
NewlineTerminated == Pieces[Len(Pieces)] = <<>>

Lines == SubSeq(Pieces, 1, Len(Pieces) - 1)

(* the cells of a line "|c1|c2|...|cn|" *)
Cells(line) ==
  LET p == SplitOn(line, "|") IN SubSeq(p, 2, Len(p) - 1)

IsRule(line) == Len(line) >= 1 /\ \A k \in 1..Len(line) : line[k] = "-"

(* among the lines of one print: line 2 is the header line and line 3 + k *)
(* is the data line of row k                                              *)
HeaderCells(L) == Cells(L[2])

DataCells(L, k) == Cells(L[3 + k])

Columns == 1.._num_columns

(* a print has returned and its output is in the stream *)
Printed == lastOp = "print" /\ status = "ok"

SetMax(S) == CHOOSE m \in S : \A x \in S : x <= m

(* the display length the width rule speaks of *)
DisplayLength(i, row) ==
  IF Ts[i] = "string" THEN Len(row[i]) ELSE _static_column_size

RowWidth == 1 + Sum([i \in Columns |-> _column_sizes[i] + 1])

----------------------------------------------------------------------------
(* C1: every line written by print (the three rules, the header line and    *)
(* each data line) has the same width, 1 + the sum over the columns of      *)
(* (column width + 1), whatever the printed length of the values.           *)
C1_EveryLineHasRowWidth ==
  Printed => LET L == Lines IN \A k \in 1..Len(L) : Len(L[k]) = RowWidth

----------------------------------------------------------------------------
(* C2: the width a print uses for column i is the maximum of the header     *)
(* label's length and the display length of column i's value in every row   *)
(* added so far, whatever was printed before; the header cell and every     *)
(* data cell of that print are set to that width.                           *)
C2_WidthIsMaxOfHeaderAndRows ==
  Printed =>
    LET L == Lines IN
    \A i \in Columns :
      LET lens == {Len(_headers[i])}
                    \cup {DisplayLength(i, _data[k]) : k \in 1..Len(_data)}
          w == _column_sizes[i]
      IN  /\ w = SetMax(lens)
          /\ \A x \in lens : w >= x
          /\ w \in lens
          /\ Len(HeaderCells(L)[i]) = w
          /\ \A k \in 1..Len(_data) :
               LET text == ToText(Ts[i], _data[k][i])
               IN  Len(DataCells(L, k)[i]) = Max(w, Len(text))

C2_Witness ==
  /\ Printed
  /\ reprint = FALSE
  /\ Len(_data) >= 2
  /\ \E i \in Columns : _column_sizes[i] > Len(_headers[i])
  /\ \E i \in Columns :
       /\ Ts[i] # "string"
       /\ _column_sizes[i] = _static_column_size
       /\ _static_column_size > Len(_headers[i])

----------------------------------------------------------------------------
(* C3: a print that directly follows a print writes the same bytes, and a   *)
(* print changes neither the rows, the headers nor the fallback width.      *)
C3_PrintIsIdempotent ==
  [][ /\ (lastOp = "print" /\ lastOp' = "print") => stream'.buf = stream.buf
      /\ lastOp' = "print" =>
           /\ _data' = _data
           /\ _headers' = _headers
           /\ _static_column_size' = _static_column_size ]_vars

C3_Witness ==
  /\ Printed
  /\ reprint = TRUE
  /\ Len(_data) >= 1
  /\ \E i \in Columns : _column_sizes[i] > Len(_headers[i])
  /\ \E i \in Columns : ~IsArithmetic(Ts[i])

----------------------------------------------------------------------------
(* C4: rows are append-only and render in arrival order: addRow puts one    *)
(* row at the end and leaves the earlier rows alone, nothing else changes   *)
(* the rows, and the k-th data line of a print shows the k-th row.          *)
Trim(cell) ==
  LET P == {k \in 1..Len(cell) : cell[k] # " "}
  IN  IF P = {} THEN <<>>
      ELSE SubSeq(cell, CHOOSE a \in P : \A b \in P : a <= b,
                        CHOOSE a \in P : \A b \in P : a >= b)

C4_RowsShownInOrder ==
  /\ [](Printed =>
          LET L == Lines IN
          /\ Len(L) = Len(_data) + 4
          /\ \A k \in 1..Len(_data) : \A i \in Columns :
               Trim(DataCells(L, k)[i]) = ToText(Ts[i], _data[k][i]))
  /\ [][ /\ lastOp' = "addRow" =>
              \E data \in Rows(Ts) : _data' = Append(_data, data)
         /\ lastOp' # "addRow" => _data' = _data ]_vars

C4_Witness ==
  /\ Printed
  /\ Len(_data) >= 2
  /\ _data[1] # _data[2]

----------------------------------------------------------------------------
(* C5: with N rows print writes N + 4 newline-terminated lines: a rule, the *)
(* header line, a rule, the N data lines, a rule; the three rules are the   *)
(* same and no other line is a rule.                                        *)
C5_LineLayout ==
  Printed =>
    LET N == Len(_data)
        L == Lines
    IN
      /\ NewlineTerminated
      /\ Len(L) = N + 4
      /\ IsRule(L[1])
      /\ L[3] = L[1]
      /\ L[N + 4] = L[1]
      /\ Head(L[2]) = "|"
      /\ [i \in Columns |-> Trim(HeaderCells(L)[i])] = _headers
      /\ \A k \in 1..N : Head(L[3 + k]) = "|" /\ Len(DataCells(L, k)) = _num_columns
      /\ Cardinality({k \in 1..Len(L) : IsRule(L[k])}) = 3

C5_Witness ==
  /\ Printed
  /\ Len(_data) >= 2
  /\ _num_columns >= 2

----------------------------------------------------------------------------
(* C6: construction aborts exactly when the number of headers differs from  *)
(* the number of columns; otherwise it succeeds with zero rows, and no      *)
(* addRow or print ends the process.                                        *)
C6_AbortOnlyOnHeaderMismatch ==
  lastOp # "none" =>
    /\ status \in {"ok", "aborted"}
    /\ status = "aborted" <=> Len(_headers) # Len(Ts)
    /\ status = "aborted" => lastOp = "construct"
    /\ lastOp = "construct" => _data = <<>>

C6_Witness ==
  /\ status = "aborted"
  /\ lastOp = "construct"
  /\ Len(_headers) > Len(Ts)

----------------------------------------------------------------------------
(* C7: in every data line a value of an arithmetic column has all its fill  *)
(* before it and a value of any other column has all its fill after it.     *)
CellFill(k, i) ==
  Fill(Max(0, _column_sizes[i] - Len(ToText(Ts[i], _data[k][i]))), " ")

----------------------------------------------------------------------------
(* C8: in the header line a label has floor(width/2) - floor(length/2)      *)
(* spaces before it and the rest of the fill after it.                      *)
Leading(i) == _column_sizes[i] \div 2 - Len(_headers[i]) \div 2

Trailing(i) == _column_sizes[i] - Len(_headers[i]) - Leading(i)

HeaderCellIsCentred(L, i) ==
  /\ Leading(i) >= 0
  /\ Trailing(i) >= 0
  /\ HeaderCells(L)[i]
       = Fill(Leading(i), " ") \o _headers[i] \o Fill(Trailing(i), " ")

(* C8 as claimed: the odd space is always on the right, that is, no label   *)
(* has more spaces before it than after it.                                 *)
C8_OddSpaceOnTheRight ==
  Printed =>
    LET L == Lines IN
    \A i \in Columns : HeaderCellIsCentred(L, i) /\ Leading(i) <= Trailing(i)

(* C8 as amended: the odd space is on the right when the label's length is  *)
(* even and on the left when it is odd; an even fill is split evenly.       *)
C8_OddSpaceBySideOfLabelParity ==
  Printed =>
    LET L == Lines IN
    \A i \in Columns :
      LET l == Len(_headers[i])
          pad == _column_sizes[i] - l
      IN  /\ HeaderCellIsCentred(L, i)
          /\ pad % 2 = 0 => Leading(i) = Trailing(i)
          /\ (pad % 2 = 1 /\ l % 2 = 0) => Trailing(i) = Leading(i) + 1
          /\ (pad % 2 = 1 /\ l % 2 = 1) => Leading(i) = Trailing(i) + 1

C8_Witness ==
  /\ Printed
  /\ \E i, j \in Columns :
       /\ Leading(i) = Trailing(i) + 1
       /\ Trailing(j) = Leading(j) + 1

----------------------------------------------------------------------------
(* C9: the example table: "Name", "Weight", "Age", "Brother", fallback      *)
(* width 0, the one row ("Fred", 193.4, 35, "Sam").                         *)
ExamplePrinted ==
  /\ lastOp = "print"
  /\ Ts = ExampleTs
  /\ _headers = ExampleHeaders
  /\ _static_column_size = 0
  /\ _data = <<ExampleRow>>

RuleLines(L) == {k \in 1..Len(L) : IsRule(L[k])}

(* C9 as claimed: the widths are 4, 6, 3 and 7 and there are four rule      *)
(* lines, each 1+(4+1)+(6+1)+(3+1)+(7+1) wide.                              *)
C9_ExampleFourRules ==
  ExamplePrinted =>
    LET L == Lines IN
    /\ status = "ok"
    /\ _column_sizes = <<4, 6, 3, 7>>
    /\ Cardinality(RuleLines(L)) = 4
    /\ \A k \in RuleLines(L) : Len(L[k]) = 1 + (4 + 1) + (6 + 1) + (3 + 1) + (7 + 1)

(* C9 as amended: the widths are 4, 6, 3 and 7 and there are three rule     *)
(* lines, each 1+(4+1)+(6+1)+(3+1)+(7+1) wide.                              *)
C9_ExampleThreeRules ==
  ExamplePrinted =>
    LET L == Lines IN
    /\ status = "ok"
    /\ _column_sizes = <<4, 6, 3, 7>>
    /\ Cardinality(RuleLines(L)) = 3
    /\ \A k \in RuleLines(L) : Len(L[k]) = 1 + (4 + 1) + (6 + 1) + (3 + 1) + (7 + 1)

C9_Witness == ExamplePrinted /\ status = "ok"

----------------------------------------------------------------------------
(* C10: the header offset half = width/2 - length/2 never goes below zero,  *)
(* half + length <= width, the header cell is as wide as its column and the *)
(* header line is as wide as the rule.                                      *)
C10_HalfNeverUnderflows ==
  lastOp = "print" =>
    LET L == Lines IN
    /\ status = "ok"
    /\ \A i \in Columns :
         /\ _column_sizes[i] \div 2 >= Len(_headers[i]) \div 2
         /\ half(i, _column_sizes) = _column_sizes[i] \div 2 - Len(_headers[i]) \div 2
         /\ half(i, _column_sizes) + Len(_headers[i]) <= _column_sizes[i]
         /\ Len(HeaderCells(L)[i]) = _column_sizes[i]
    /\ Len(L[2]) = Len(L[1])

C10_Witness ==
  /\ Printed
  /\ \E i \in Columns :
       /\ half(i, _column_sizes) > 0
       /\ half(i, _column_sizes) + Len(_headers[i]) = _column_sizes[i]

====
